---- MODULE Spec2Model ----
(***************************************************************************)
(* Model of app2.py: one submission of the Wialon logistics uploader.      *)
(* run_wialon_uploader reads the order files (process_multiple_excels),    *)
(* resolves the asset (read_asset_id_from_excel) and then runs             *)
(* send_orders_and_create_route: token/login, order/optimize, the assembly *)
(* of the route (one OSRM lookup per leg without geometry) and core/batch. *)
(*                                                                         *)
(* Conventions.  A Python value that may be None is a sequence: << >> is   *)
(* None and <<v>> is the value v.  Text is a sequence of one-character     *)
(* strings.  TONNAGE is held in 1/10000 tonne and AMOUNT in cents, so that *)
(* the truncations int(float(t) * 1000) and int(cost) are not the          *)
(* identity.  Coordinates are positions in metres along one road, and the  *)
(* great-circle distance of two points is the distance between them.       *)
(***************************************************************************)
EXTENDS Integers, Sequences, FiniteSets, TLC

VARIABLES
    pc,                \* position of the submission in run_wialon_uploader / send_orders_and_create_route
    file_idx,          \* number of order files read so far
    all_gdfs,          \* process_multiple_excels: the tables collected
    truck_numbers,     \* process_multiple_excels: the identifiers collected
    df_grouped,        \* the combined table (gdf_joined), later sorted by distance
    truck_number_norm, \* the sole identifier, << >> when none
    unit_id,           \* the resolved unit id, << >> when none
    tf,                \* window start (epoch seconds)
    login_result,      \* response of token/login
    session_id,        \* << >> or <<eid>>
    optimize_result,   \* response of order/optimize
    optimized_orders,  \* the per-vehicle order list of the response
    end_warehouse_rp,  \* geometry of the final leg
    order_idx,         \* number of entries of optimized_orders handled
    route_orders,      \* the stops of the plan
    last_visit_time,
    prev_coords,
    sequence_index,
    osrm_log,          \* outcome of the fallback lookup of each stop of route_orders
    summary,           \* the summary of the core/batch request
    route_result,      \* response of core/batch
    calls,             \* number of requests sent to each remote service
    result,            \* what send_orders_and_create_route returned
    ui,                \* what run_wialon_uploader showed: st.error / st.success
    fn_in,             \* the arguments of a function studied on its own
    fn_out             \* what that function returned

vars == << pc, file_idx, all_gdfs, truck_numbers, df_grouped,
           truck_number_norm, unit_id, tf, login_result, session_id,
           optimize_result, optimized_orders, end_warehouse_rp, order_idx,
           route_orders, last_visit_time, prev_coords, sequence_index,
           osrm_log, summary, route_result, calls, result, ui, fn_in, fn_out >>

(***************************************************************************)
(* Bounds of the model.                                                    *)
(***************************************************************************)
MaxFiles == 2          \* order files uploaded in one submission
MaxResp == 2           \* entries in the optimizer's per-vehicle order list

None == << >>
Some(v) == << v >>

RECURSIVE SeqSum(_)
SeqSum(s) == IF s = << >> THEN 0 ELSE Head(s) + SeqSum(Tail(s))

Abs(n) == IF n < 0 THEN 0 - n ELSE n
Max2(a, b) == IF a >= b THEN a ELSE b

(***************************************************************************)
(* Normalization                                                           *)
(***************************************************************************)
LowerLetters == << "a", "b", "c", "d", "e", "f", "g", "h", "i", "j", "k", "l", "m",
                   "n", "o", "p", "q", "r", "s", "t", "u", "v", "w", "x", "y", "z" >>
UpperLetters == << "A", "B", "C", "D", "E", "F", "G", "H", "I", "J", "K", "L", "M",
                   "N", "O", "P", "Q", "R", "S", "T", "U", "V", "W", "X", "Y", "Z" >>
DigitChars == << "0", "1", "2", "3", "4", "5", "6", "7", "8", "9" >>
Digits == { DigitChars[i] : i \in DOMAIN DigitChars }

\* str.upper on one character
UpperChar(c) ==
    IF \E i \in DOMAIN LowerLetters : LowerLetters[i] = c
    THEN UpperLetters[CHOOSE i \in DOMAIN LowerLetters : LowerLetters[i] = c]
    ELSE c

\* the class [A-Z0-9]
PlateChars == { UpperLetters[i] : i \in DOMAIN UpperLetters } \cup Digits

\* normalize_plate: uppercase, then keep only [A-Z0-9]
normalize_plate(s) ==
    SelectSeq([i \in 1..Len(s) |-> UpperChar(s[i])], LAMBDA c : c \in PlateChars)

\* Python's `needle in hay` / str.contains(re.escape(needle)) on text
Contains(hay, needle) ==
    \E i \in 0..(Len(hay) - Len(needle)) :
        \A j \in 1..Len(needle) : hay[i + j] = needle[j]

T1 == << "K", "1" >>
T2 == << "K", "2" >>
TruckIds == { None, T1, T2 }

(***************************************************************************)
(* Order files.  A file is what read_excel_to_df sees of it: whether a     *)
(* header row with a cell NO. exists, whether the four required columns    *)
(* exist, whether the columns REP and INVOICE NO that the grouping names   *)
(* exist (keyed), the identifier extract_truck_number_from_text finds      *)
(* (<< >> when none), and the aggregated rows with parseable coordinates,  *)
(* in group-key order.                                                     *)
(***************************************************************************)
MorlPos == 0     \* the depot, origin of the road

AggRows == <<
    [cid |-> 1, name |-> "ACME", loc |-> "L1", TONNAGE |-> 10000, AMOUNT |-> 10050, pos |-> 3200],
    [cid |-> 1, name |-> "ACME", loc |-> "L1", TONNAGE |-> 15005, AMOUNT |-> 900,   pos |-> 4000],
    [cid |-> 1, name |-> "ACME", loc |-> "L3", TONNAGE |-> 20000, AMOUNT |-> 25099, pos |-> 1500],
    [cid |-> 2, name |-> "BETA", loc |-> "L2", TONNAGE |-> 20000, AMOUNT |-> 7000,  pos |-> 2100] >>

RowSets == { {}, {1, 3}, {1, 4}, {2} }

Files ==
    [header : {TRUE}, required : {TRUE}, keyed : BOOLEAN, truck : TruckIds, rows : RowSets]
    \cup [header : {FALSE}, required : {TRUE}, keyed : {TRUE}, truck : TruckIds, rows : {{}}]
    \cup [header : {TRUE}, required : {FALSE}, keyed : {TRUE}, truck : TruckIds, rows : {{}}]

\* the rows of a file as a table, in the order groupby leaves them (by key)
RECURSIVE TableOf(_, _)
TableOf(S, i) ==
    IF i > Len(AggRows) THEN << >>
    ELSE (IF i \in S THEN << AggRows[i] >> ELSE << >>) \o TableOf(S, i + 1)

\* read_excel_to_df: raises (err) or returns (df, truck)
read_excel_to_df(f) ==
    IF ~f.header
    THEN [err |-> "Could not locate header row", df |-> << >>, truck |-> None]
    ELSE IF ~f.required
    THEN [err |-> "Missing required columns", df |-> << >>, truck |-> None]
    ELSE IF ~f.keyed
    THEN [err |-> "KeyError", df |-> << >>, truck |-> None]
    ELSE [err |-> "", df |-> TableOf(f.rows, 1), truck |-> f.truck]

\* drop_duplicates(subset=[CUSTOMER ID, LOCATION], keep="first")
RECURSIVE drop_duplicates(_)
drop_duplicates(s) ==
    IF s = << >> THEN << >>
    ELSE LET n == Len(s)
             init == drop_duplicates(SubSeq(s, 1, n - 1))
             r == s[n]
         IN  IF \E j \in 1..(n - 1) : s[j].cid = r.cid /\ s[j].loc = r.loc
             THEN init
             ELSE Append(init, r)

\* pd.concat(all_gdfs, ignore_index=True)
RECURSIVE concat(_)
concat(tables) ==
    IF tables = << >> THEN << >> ELSE Head(tables) \o concat(Tail(tables))

\* len(truck_numbers) > 1
MultipleTrucksBug(trucks) == Cardinality(trucks) > 2
MultipleTrucks(trucks) == Cardinality(trucks) > 1

\* the checks of process_multiple_excels after its loop, in the code's order
ExcelsOutcome(gdfs, trucks) ==
    IF gdfs = << >>
    THEN [err |-> "No valid data found", named |-> {}, df |-> << >>, truck |-> None]
    ELSE IF MultipleTrucks(trucks)
    THEN [err |-> "Multiple truck numbers found", named |-> trucks, df |-> << >>, truck |-> None]
    ELSE [err |-> "", named |-> {},
          df |-> drop_duplicates(concat(gdfs)),
          truck |-> IF trucks = {} THEN None ELSE CHOOSE t \in trucks : TRUE]

(***************************************************************************)
(* Assets                                                                  *)
(***************************************************************************)
AssetTables == {
    [cols |-> TRUE,  rows |-> << [name |-> << "X", "2" >>, itemid |-> 22],
                                 [name |-> << "K", "1" >>, itemid |-> 11] >>],
    [cols |-> TRUE,  rows |-> << [name |-> << "k", " ", "1", "-", "x" >>, itemid |-> 11],
                                 [name |-> << "K", "-", "2" >>, itemid |-> 0] >>],
    [cols |-> TRUE,  rows |-> << [name |-> << "X", "1" >>, itemid |-> 33] >>],
    [cols |-> FALSE, rows |-> << >>] }

\* the same lookup without the exact-match pass
read_asset_id_from_excelBug(assets, truck) ==
    IF ~assets.cols
    THEN [err |-> "Assets Excel must contain columns", unit |-> None, name |-> None]
    ELSE IF truck = None
    THEN [err |-> "", unit |-> None, name |-> None]
    ELSE LET rows == assets.rows
             match == SelectSeq(rows, LAMBDA r : Contains(normalize_plate(r.name), truck))
         IN  IF match # << >>
             THEN [err |-> "", unit |-> Some(match[1].itemid), name |-> Some(match[1].name)]
             ELSE [err |-> "", unit |-> None, name |-> None]

\* read_asset_id_from_excel: raises (err) or returns the unit id and the
\* display name of the matching row, << >> for both when there is none
read_asset_id_from_excel(assets, truck) ==
    IF ~assets.cols
    THEN [err |-> "Assets Excel must contain columns", unit |-> None, name |-> None]
    ELSE IF truck = None
    THEN [err |-> "", unit |-> None, name |-> None]
    ELSE LET rows == assets.rows
             exact == SelectSeq(rows, LAMBDA r : normalize_plate(r.name) = truck)
             match == IF exact = << >>
                      THEN SelectSeq(rows, LAMBDA r : Contains(normalize_plate(r.name), truck))
                      ELSE exact
         IN  IF match # << >>
             THEN [err |-> "", unit |-> Some(match[1].itemid), name |-> Some(match[1].name)]
             ELSE [err |-> "", unit |-> None, name |-> None]

\* `if not unit_id`
NoUnitBug(u) == u = None
NoUnit(u) == u = None \/ u[1] = 0

(***************************************************************************)
(* State after construction: the form is shown, nothing is submitted.      *)
(***************************************************************************)
NoCalls == [auth |-> 0, optimize |-> 0, persist |-> 0, osrm |-> 0]
NoResult == [error |-> 0, kind |-> "", text |-> "", url |-> None]
NoUi == [kind |-> "", text |-> "", named |-> {}]
NoSummary == [countOrders |-> 0, mileage |-> 0, weight |-> 0, cost |-> 0]
NoResponse == [shape |-> "none"]

WindowStarts == { 21600 }

\* every variable of the submission but pc, as the script starts
Blank ==
    /\ file_idx = 0
    /\ all_gdfs = << >>
    /\ truck_numbers = {}
    /\ df_grouped = << >>
    /\ truck_number_norm = None
    /\ unit_id = None
    /\ tf \in WindowStarts
    /\ login_result = NoResponse
    /\ session_id = None
    /\ optimize_result = NoResponse
    /\ optimized_orders = << >>
    /\ end_warehouse_rp = None
    /\ order_idx = 0
    /\ route_orders = << >>
    /\ last_visit_time = 0
    /\ prev_coords = MorlPos
    /\ sequence_index = 0
    /\ osrm_log = << >>
    /\ summary = NoSummary
    /\ route_result = NoResponse
    /\ calls = NoCalls
    /\ result = NoResult
    /\ ui = NoUi

Init ==
    /\ pc = "form"
    /\ Blank
    /\ fn_in = None
    /\ fn_out = None

fnVars == << fn_in, fn_out >>
submissionVars == << file_idx, all_gdfs, truck_numbers, df_grouped, truck_number_norm,
                     unit_id, tf, login_result, session_id, optimize_result,
                     optimized_orders, end_warehouse_rp, order_idx, route_orders,
                     last_visit_time, prev_coords, sequence_index, osrm_log, summary,
                     route_result, calls, result, ui >>
excelVars == << file_idx, all_gdfs, truck_numbers, df_grouped, truck_number_norm >>
routeVars == << login_result, session_id, optimize_result, optimized_orders,
                end_warehouse_rp, order_idx, route_orders, last_visit_time,
                prev_coords, sequence_index, osrm_log, summary, route_result,
                calls, result >>

UiError(text, named) == [kind |-> "error", text |-> text, named |-> named]

(***************************************************************************)
(* run_wialon_uploader                                                     *)
(***************************************************************************)
\* the form is submitted: all four inputs must be there
Submit ==
    /\ pc = "form"
    /\ \E files \in BOOLEAN, others \in BOOLEAN :
          /\ IF ~files \/ ~others
             THEN /\ ui' = UiError("Please upload orders Excel, assets Excel, token, and resource ID.", {})
                  /\ pc' = "done"
             ELSE /\ ui' = ui
                  /\ pc' = "excels"
    /\ UNCHANGED << file_idx, all_gdfs, truck_numbers, df_grouped, truck_number_norm,
                    unit_id, tf, routeVars, fnVars >>

\* process_multiple_excels: one turn of its loop, on the next uploaded file
ReadExcel ==
    /\ pc = "excels"
    /\ file_idx < MaxFiles
    /\ \E f \in Files :
          LET r == read_excel_to_df(f) IN
          IF r.err # ""
          THEN /\ ui' = UiError(r.err, {})
               /\ pc' = "done"
               /\ UNCHANGED << file_idx, all_gdfs, truck_numbers >>
          ELSE /\ file_idx' = file_idx + 1
               /\ all_gdfs' = IF Len(r.df) > 0 THEN Append(all_gdfs, r.df) ELSE all_gdfs
               /\ truck_numbers' = IF r.truck # None THEN truck_numbers \cup {r.truck}
                                   ELSE truck_numbers
               /\ UNCHANGED << ui, pc >>
    /\ UNCHANGED << df_grouped, truck_number_norm, unit_id, tf, routeVars, fnVars >>

\* process_multiple_excels after its loop: the uploaded files (at least one, by
\* the form check) are all read.  On return its locals are gone; a raise leaves
\* them as they were.
FinishExcels ==
    /\ pc = "excels"
    /\ file_idx >= 1
    /\ LET r == ExcelsOutcome(all_gdfs, truck_numbers) IN
       IF r.err # ""
       THEN /\ ui' = UiError(r.err, r.named)
            /\ pc' = "done"
            /\ UNCHANGED << file_idx, all_gdfs, truck_numbers, df_grouped, truck_number_norm >>
       ELSE /\ df_grouped' = r.df
            /\ truck_number_norm' = r.truck
            /\ file_idx' = 0
            /\ all_gdfs' = << >>
            /\ truck_numbers' = {}
            /\ pc' = "asset"
            /\ ui' = ui
    /\ UNCHANGED << unit_id, tf, routeVars, fnVars >>

\* the rest of run_wialon_uploader up to the call of send_orders_and_create_route
ResolveAsset ==
    /\ pc = "asset"
    /\ \E assets \in AssetTables, ridOk \in BOOLEAN :
          LET r == read_asset_id_from_excel(assets, truck_number_norm) IN
          IF df_grouped = << >>
          THEN /\ ui' = UiError("No delivery rows with valid coordinates were found.", {})
               /\ pc' = "done"
               /\ unit_id' = unit_id
          ELSE IF r.err # ""
          THEN /\ ui' = UiError(r.err, {})
               /\ pc' = "done"
               /\ unit_id' = unit_id
          ELSE IF NoUnit(r.unit)
          THEN /\ ui' = UiError("Could not find unit ID for truck", {truck_number_norm})
               /\ pc' = "done"
               /\ unit_id' = r.unit
          ELSE IF ~ridOk
          THEN /\ ui' = UiError("invalid literal for int()", {})
               /\ pc' = "done"
               /\ unit_id' = r.unit
          ELSE /\ unit_id' = r.unit
               /\ pc' = "login"
               /\ ui' = ui
    /\ UNCHANGED << excelVars, tf, routeVars, fnVars >>

(***************************************************************************)
(* send_orders_and_create_route: remote responses                          *)
(***************************************************************************)
\* token/login: a transport fault (or a body that is no JSON), a body that is no
\* dict, a dict without eid, a dict with eid
LoginResponses == {
    [shape |-> "fault", eid |-> None,        body |-> ""],
    [shape |-> "other", eid |-> None,        body |-> "null"],
    [shape |-> "dict",  eid |-> None,        body |-> "{'error': 4}"],
    [shape |-> "dict",  eid |-> Some("s1"),  body |-> "{'eid': 's1'}"] }

\* One entry of the optimizer's order list.  dict: the entry is a JSON object;
\* idk: its id is an int, is missing, or is a list (unhashable); tmk: its tm is an
\* int, is missing, or is a float; rp: its geometry (rp or p), << >> when none.
Entry(dict, idk, id, f, tmk, tm, rp) ==
    [dict |-> dict, idk |-> idk, id |-> id, f |-> f, tmk |-> tmk, tm |-> tm, rp |-> rp]

Geom == Some("polyline")

CustomerEntries == {
    Entry(TRUE, "int", 1, 0, "none", 0, None),          \* no time, no geometry
    Entry(TRUE, "int", 2, 0, "int", 0, None),           \* time 0
    Entry(TRUE, "int", 1, 0, "int", 21630, None),       \* a time 30 s into the window
    Entry(TRUE, "int", 2, 0, "int", 21630, None),
    Entry(TRUE, "int", 1, 0, "int", 30000, Geom),       \* a late time, with geometry
    Entry(TRUE, "int", 2, 0, "float", 30000, Geom),     \* a time that is no int
    Entry(TRUE, "int", 1, 264, "none", 0, Geom) }       \* a submitted id flagged 264

OtherEntries == {
    Entry(TRUE, "int", 0, 260, "none", 0, None),        \* the start depot
    Entry(TRUE, "int", 99999, 264, "none", 0, Geom),    \* the end depot, with geometry
    Entry(TRUE, "int", 99999, 264, "none", 0, None),    \* the end depot, without
    Entry(TRUE, "int", 7, 0, "int", 30000, Geom),       \* an id that was not submitted
    Entry(TRUE, "list", 0, 0, "none", 0, None),         \* an unhashable id
    Entry(FALSE, "none", 0, 0, "none", 0, None) }       \* not a dict

Entries == CustomerEntries \cup OtherEntries

OrderLists == UNION { [1..n -> Entries] : n \in 0..MaxResp }

\* order/optimize: fault; a body that is no dict; a dict with an error code
\* (error: << >> when the field is missing) and a reason; the target vehicle's key
\* missing, bound to something that is no dict, or bound to a dict with orders
OptResponse(shape, error, reason, unit, orders) ==
    [shape |-> shape, error |-> error, reason |-> reason, unit |-> unit, orders |-> orders]

OptimizeResponses ==
    { OptResponse("fault", None, None, "missing", << >>),
      OptResponse("other", None, None, "missing", << >>),
      OptResponse("dict", None, None, "notdict", << >>),
      OptResponse("dict", Some(0), None, "missing", << >>) }
    \cup { OptResponse("dict", Some(4), r, u, << >>) :
              r \in { None, Some("LIMIT") }, u \in { "missing", "dict" } }
    \cup { OptResponse("dict", None, None, "dict", o) : o \in OrderLists }
    \cup { OptResponse("dict", Some(0), None, "dict", o) : o \in [1..1 -> CustomerEntries] }

\* optimize_result.get('error', 0)
ErrorCode(r) == IF r.error = None THEN 0 ELSE r.error[1]

\* `not isinstance(login_result, dict) or "eid" not in login_result`
LoginFailedBug(r) == r.shape # "dict"
LoginFailed(r) == r.shape # "dict" \/ r.eid = None

\* `isinstance(optimize_result, dict) and optimize_result.get('error', 0) != 0`
OptimizeFailedBug(r) == FALSE
OptimizeFailed(r) == r.shape = "dict" /\ ErrorCode(r) # 0

\* OSRM: a geometry; a body without routes; a transport fault, a timeout or a body
\* of another shape (an exception inside the try)
OsrmOutcomes == { "ok", "empty", "fault" }
OsrmFailed == { "empty", "fault" }

\* core/batch
Item(dict, error, reason) == [dict |-> dict, error |-> error, reason |-> reason]
BatchItems == {
    Item(FALSE, None, None),
    Item(TRUE, None, None),
    Item(TRUE, Some(0), None),
    Item(TRUE, Some(4), Some("R4")),
    Item(TRUE, Some(5), None) }

BatchResponse(shape, items, error, reason) ==
    [shape |-> shape, items |-> items, error |-> error, reason |-> reason]

PersistResponses ==
    { BatchResponse("fault", << >>, None, None),
      BatchResponse("other", << >>, None, None),
      BatchResponse("list", << >>, None, None),
      BatchResponse("list", << Item(TRUE, Some(0), None), Item(TRUE, Some(4), Some("R4")) >>, None, None),
      BatchResponse("list", << Item(TRUE, Some(5), None), Item(TRUE, Some(4), Some("R4")) >>, None, None),
      BatchResponse("dict", << >>, None, None),
      BatchResponse("dict", << >>, Some(0), None),
      BatchResponse("dict", << >>, Some(6), Some("R6")) }
    \cup { BatchResponse("list", << a >>, None, None) : a \in BatchItems }

(***************************************************************************)
(* send_orders_and_create_route: results                                   *)
(***************************************************************************)
Failure(error, kind, text) == [error |-> error, kind |-> kind, text |-> text, url |-> None]
Success(sid) == [error |-> 0, kind |-> "Route created successfully", text |-> "", url |-> sid]

\* the handler of the outer try: any exception becomes a failure result
HandleException(origin) == Failure(1, "An unexpected error occurred", origin)

\* run_wialon_uploader shows the result
Show(r) ==
    IF r.error = 0
    THEN [kind |-> "success", text |-> "Route created successfully!", named |-> {}]
    ELSE [kind |-> "error", text |-> "Failed", named |-> {}]

(***************************************************************************)
(* send_orders_and_create_route: helpers                                   *)
(***************************************************************************)
\* calculate_distance / calc_dist / calc_dist_pts, in metres, truncated
calc_dist(a, b) == Abs(a - b)

\* df_grouped.sort_values('Distance_From_MORL').reset_index(drop=True): stable
RECURSIVE sort_values(_)
sort_values(df) ==
    IF df = << >> THEN << >>
    ELSE LET n == Len(df)
             init == sort_values(SubSeq(df, 1, n - 1))
             r == df[n]
             d(x) == calc_dist(MorlPos, x.pos)
             k == Cardinality({ j \in 1..Len(init) : d(init[j]) <= d(r) })
         IN  SubSeq(init, 1, k) \o << r >> \o SubSeq(init, k + 1, Len(init))

\* order_id_to_name: order ids are idx + 1 over the sorted table
order_id_to_name(df) == [i \in 1..Len(df) |-> df[i].name]

\* int(float(row['TONNAGE']) * 1000)
weight_kg(row) == row.TONNAGE \div 10

\* int(cost_val)
cost_int(row) == row.AMOUNT \div 100

\* coord_map[name]: the dict comprehension keeps the last row of that name
coord_map(df, name) ==
    LET idx == { j \in 1..Len(df) : df[j].name = name }
    IN  df[CHOOSE j \in idx : \A k \in idx : k <= j].pos

\* cust_rows.iloc[0]: the first row of that name
cust_rows_first(df, name) ==
    LET idx == { j \in 1..Len(df) : df[j].name = name }
    IN  df[CHOOSE j \in idx : \A k \in idx : j <= k]

\* the last entry flagged 264 gives the geometry of the final leg
RECURSIVE EndWarehouseRp(_)
EndWarehouseRp(orders) ==
    IF orders = << >> THEN None
    ELSE LET e == orders[Len(orders)]
         IN  IF e.dict /\ e.f = 264 THEN e.rp
             ELSE EndWarehouseRp(SubSeq(orders, 1, Len(orders) - 1))

\* what becomes of an optimizer entry: "skip" (continue), "raise" or "stop"
EntryFate(resp, df) ==
    IF ~resp.dict \/ resp.idk = "none" THEN "skip"
    ELSE IF resp.idk = "list" THEN "raise"
    ELSE IF resp.id \in DOMAIN order_id_to_name(df) THEN "stop"
    ELSE "skip"

\* sequence_index after an entry that `continue` passed over
AfterSkipBug(i) == i + 1
AfterSkip(i) == i

\* the flag of a customer stop
CustomerFlagBug(resp) == resp.f
CustomerFlag(resp) == 0

\* the planned time of a customer stop
NormalizeTmBug(resp, last, start) ==
    IF resp.tmk # "int" \/ resp.tm <= 0
    THEN last + 600
    ELSE Max2(resp.tm, start)
NormalizeTm(resp, last, start) ==
    IF resp.tmk # "int" \/ resp.tm <= 0
    THEN last + 600
    ELSE Max2(Max2(resp.tm, last + 60), start)

\* whether an outcome of the OSRM lookup leaves its try block as an exception
OsrmAbortsBug(outcome) == outcome = "fault"
OsrmAborts(outcome) == FALSE

\* the geometry a leg ends with
LegGeometry(given, outcome) ==
    IF given # None THEN given
    ELSE IF outcome = "ok" THEN Some("osrm") ELSE None

Stop(id, n, f, vt, i, m, w, c, rp, pos) ==
    [id |-> id, n |-> n, f |-> f, vt |-> vt, i |-> i, m |-> m, w |-> w, c |-> c,
     rp |-> rp, pos |-> pos]

\* the position after a fault was caught: the function has returned
AfterFaultBug(step) == step
AfterFault(step) == "done"

\* which stops count in the weight and cost of the summary
CountsInTotals(o) == o.f = 0

Summary(orders) ==
    [countOrders |-> Len(orders),
     mileage |-> SeqSum([k \in 1..Len(orders) |-> orders[k].m]),
     weight |-> SeqSum([k \in 1..Len(orders) |-> IF CountsInTotals(orders[k]) THEN orders[k].w ELSE 0]),
     cost |-> SeqSum([k \in 1..Len(orders) |-> IF CountsInTotals(orders[k]) THEN orders[k].c ELSE 0])]

\* route_result.get("error", 1) of a dict-shaped response
DictErrorBug(r) == IF r.error = None THEN 0 ELSE r.error[1]
DictError(r) == IF r.error = None THEN 1 ELSE r.error[1]

IsErrorItem(item) == item.dict /\ ErrorCode(item) # 0

\* the interpretation of the core/batch response
PersistOutcome(r, sid) ==
    IF r.shape = "list"
    THEN LET bad == { k \in 1..Len(r.items) : IsErrorItem(r.items[k]) } IN
         IF bad = {} THEN Success(sid)
         ELSE LET item == r.items[CHOOSE k \in bad : \A j \in bad : k <= j]
              IN  Failure(ErrorCode(item), "batch error",
                          IF item.reason = None THEN "Unknown error in batch response"
                          ELSE item.reason[1])
    ELSE IF r.shape = "dict" /\ DictError(r) = 0
    THEN Success(sid)
    ELSE Failure(1, "Unexpected or error response", r.shape)

(***************************************************************************)
(* send_orders_and_create_route: steps                                     *)
(***************************************************************************)
\* the function ends with `r`, and run_wialon_uploader shows it
Return(r) ==
    /\ result' = r
    /\ ui' = Show(r)
    /\ pc' = "done"

\* an exception reaches the outer handler
Raise(origin, step) ==
    /\ result' = HandleException(origin)
    /\ ui' = Show(HandleException(origin))
    /\ pc' = AfterFault(step)

\* token/login
Login ==
    /\ pc = "login"
    /\ calls' = [calls EXCEPT !.auth = @ + 1]
    /\ \E r \in LoginResponses :
          /\ login_result' = r
          /\ IF r.shape = "fault"
             THEN Raise("token/login", "login") /\ session_id' = session_id
             ELSE IF LoginFailed(r)
             THEN Return(Failure(1, "Login failed", r.body)) /\ session_id' = session_id
             ELSE /\ session_id' = r.eid
                  /\ pc' = "optimize"
                  /\ UNCHANGED << result, ui >>
    /\ UNCHANGED << fnVars, excelVars, unit_id, tf, optimize_result, optimized_orders,
                    end_warehouse_rp, order_idx, route_orders, last_visit_time,
                    prev_coords, sequence_index, osrm_log, summary, route_result >>

StartDepot(start) == Stop(0, "MORL", 260, start, 0, 0, 0, 0, None, MorlPos)

\* the distance sort, the request, order/optimize, its interpretation, and the
\* start of the route
Optimize ==
    /\ pc = "optimize"
    /\ df_grouped' = sort_values(df_grouped)
    /\ \E serializable \in BOOLEAN :
          IF ~serializable
          THEN \* json.dumps of the orders raises: no request is sent
               /\ Raise("json.dumps", "optimize")
               /\ UNCHANGED << calls, optimize_result, optimized_orders, end_warehouse_rp,
                               route_orders, last_visit_time, osrm_log >>
          ELSE \E r \in OptimizeResponses :
               /\ calls' = [calls EXCEPT !.optimize = @ + 1]
               /\ optimize_result' = r
               /\ IF r.shape = "fault"
                  THEN /\ Raise("order/optimize", "optimize")
                       /\ UNCHANGED << optimized_orders, end_warehouse_rp, route_orders,
                                       last_visit_time, osrm_log >>
                  ELSE IF OptimizeFailed(r)
                  THEN /\ Return(Failure(ErrorCode(r), "optimize error",
                                         IF r.reason = None THEN "Optimization failed"
                                         ELSE r.reason[1]))
                       /\ UNCHANGED << optimized_orders, end_warehouse_rp, route_orders,
                                       last_visit_time, osrm_log >>
                  ELSE IF r.shape = "dict" /\ r.unit = "notdict"
                  THEN /\ Raise("unit_obj.get", "optimize")
                       /\ UNCHANGED << optimized_orders, end_warehouse_rp, route_orders,
                                       last_visit_time, osrm_log >>
                  ELSE LET orders == IF r.shape = "dict" /\ r.unit = "dict"
                                     THEN r.orders ELSE << >>
                       IN  /\ optimized_orders' = orders
                           /\ end_warehouse_rp' = EndWarehouseRp(orders)
                           /\ IF orders = << >>
                              THEN /\ Return(Failure(1, "No optimized orders in response", ""))
                                   /\ UNCHANGED << route_orders, last_visit_time, osrm_log >>
                              ELSE /\ route_orders' = << StartDepot(tf) >>
                                   /\ osrm_log' = << "none" >>
                                   /\ last_visit_time' = tf
                                   /\ pc' = "stops"
                                   /\ UNCHANGED << result, ui >>
    /\ UNCHANGED << fnVars, file_idx, all_gdfs, truck_numbers, truck_number_norm, unit_id, tf,
                    login_result, session_id, order_idx, prev_coords, sequence_index,
                    summary, route_result >>

\* one turn of the loop over optimized_orders
AddStop ==
    /\ pc = "stops"
    /\ order_idx < Len(optimized_orders)
    /\ LET resp == optimized_orders[order_idx + 1]
           fate == EntryFate(resp, df_grouped)
       IN
       CASE fate = "skip" ->
              /\ order_idx' = order_idx + 1
              /\ sequence_index' = AfterSkip(sequence_index)
              /\ UNCHANGED << route_orders, last_visit_time, prev_coords,
                              osrm_log, calls, result, ui, pc >>
         [] fate = "raise" ->
              /\ Raise("unhashable type", "stops")
              /\ UNCHANGED << order_idx, route_orders, last_visit_time, prev_coords,
                              sequence_index, osrm_log, calls >>
         [] fate = "stop" ->
              LET order_name == order_id_to_name(df_grouped)[resp.id]
                  coords == coord_map(df_grouped, order_name)
                  row == cust_rows_first(df_grouped, order_name)
                  order_tm == NormalizeTm(resp, last_visit_time, tf)
                  mileage == calc_dist(prev_coords, coords)
              IN  \E outcome \in OsrmOutcomes :
                     /\ (resp.rp # None) => outcome = "ok"
                     /\ calls' = IF resp.rp = None
                                 THEN [calls EXCEPT !.osrm = @ + 1] ELSE calls
                     /\ osrm_log' = Append(osrm_log, IF resp.rp = None THEN outcome ELSE "none")
                     /\ IF resp.rp = None /\ OsrmAborts(outcome)
                        THEN /\ Raise("osrm", "stops")
                             /\ UNCHANGED << order_idx, route_orders, last_visit_time,
                                             prev_coords, sequence_index >>
                        ELSE /\ sequence_index' = sequence_index + 1
                             /\ route_orders' = Append(route_orders,
                                    Stop(resp.id, order_name, CustomerFlag(resp), order_tm,
                                         sequence_index + 1, mileage, weight_kg(row),
                                         cost_int(row), LegGeometry(resp.rp, outcome), coords))
                             /\ prev_coords' = coords
                             /\ last_visit_time' = order_tm
                             /\ order_idx' = order_idx + 1
                             /\ UNCHANGED << result, ui, pc >>
    /\ UNCHANGED << fnVars, excelVars, unit_id, tf, login_result, session_id, optimize_result,
                    optimized_orders, end_warehouse_rp, summary, route_result >>

MaxId(orders) == CHOOSE m \in { orders[k].id : k \in 1..Len(orders) } :
                    \A k \in 1..Len(orders) : orders[k].id <= m

\* after the loop: the end depot, the geometry of the final leg, the summary
CloseRoute ==
    /\ pc = "stops"
    /\ order_idx = Len(optimized_orders)
    /\ \E outcome \in OsrmOutcomes :
          /\ (end_warehouse_rp # None) => outcome = "ok"
          /\ calls' = IF end_warehouse_rp = None
                      THEN [calls EXCEPT !.osrm = @ + 1] ELSE calls
          /\ osrm_log' = Append(osrm_log, IF end_warehouse_rp = None THEN outcome ELSE "none")
          /\ IF end_warehouse_rp = None /\ OsrmAborts(outcome)
             THEN /\ Raise("osrm", "stops")
                  /\ UNCHANGED << route_orders, sequence_index, end_warehouse_rp, summary >>
             ELSE LET final == Append(route_orders,
                                  Stop(MaxId(route_orders) + 1, "MORL", 264,
                                       last_visit_time + 600, sequence_index + 1,
                                       calc_dist(prev_coords, MorlPos), 0, 0,
                                       LegGeometry(end_warehouse_rp, outcome), MorlPos))
                  IN  /\ sequence_index' = sequence_index + 1
                      /\ end_warehouse_rp' = LegGeometry(end_warehouse_rp, outcome)
                      /\ route_orders' = final
                      /\ summary' = Summary(final)
                      /\ pc' = "persist"
                      /\ UNCHANGED << result, ui >>
    /\ UNCHANGED << fnVars, excelVars, unit_id, tf, login_result, session_id, optimize_result,
                    optimized_orders, order_idx, last_visit_time, prev_coords, route_result >>

\* core/batch and the interpretation of its response
Persist ==
    /\ pc = "persist"
    /\ calls' = [calls EXCEPT !.persist = @ + 1]
    /\ \E r \in PersistResponses :
          /\ route_result' = r
          /\ IF r.shape = "fault"
             THEN Raise("core/batch", "persist")
             ELSE Return(PersistOutcome(r, session_id))
    /\ UNCHANGED << fnVars, excelVars, unit_id, tf, login_result, session_id, optimize_result,
                    optimized_orders, end_warehouse_rp, order_idx, route_orders,
                    last_visit_time, prev_coords, sequence_index, osrm_log, summary >>

Next ==
    \/ Submit
    \/ ReadExcel
    \/ FinishExcels
    \/ ResolveAsset
    \/ Login
    \/ Optimize
    \/ AddStop
    \/ CloseRoute
    \/ Persist

Spec == Init /\ [][Next]_vars
(***************************************************************************)
(* Properties                                                              *)
(***************************************************************************)
\* the optimizer entries handled so far that became customer stops, in order
AcceptedEntries ==
    SelectSeq(SubSeq(optimized_orders, 1, order_idx),
              LAMBDA e : EntryFate(e, df_grouped) = "stop")

FlagCount(orders, flag) == Cardinality({ k \in 1..Len(orders) : orders[k].f = flag })

\* C1: when the persistence call is reached, the stop list holds exactly one
\* stop flagged 260, the first, exactly one flagged 264, the last, and only
\* stops flagged 0 between them, whatever the optimizer returned.
C1_DepotsBracketPlan ==
    (pc = "persist" \/ calls.persist > 0) =>
        /\ Len(route_orders) >= 2
        /\ FlagCount(route_orders, 260) = 1
        /\ FlagCount(route_orders, 264) = 1
        /\ route_orders[1].f = 260
        /\ route_orders[Len(route_orders)].f = 264
        /\ \A k \in 2..(Len(route_orders) - 1) : route_orders[k].f = 0

\* a plan was persisted whose optimizer response held an entry flagged 264 and
\* an entry that was skipped
C1_Witness ==
    /\ calls.persist = 1
    /\ Len(route_orders) = 3
    /\ \E k \in 1..Len(optimized_orders) :
          optimized_orders[k].dict /\ optimized_orders[k].f = 264
    /\ \E k \in 1..Len(optimized_orders) :
          EntryFate(optimized_orders[k], df_grouped) = "skip"

\* C2: a nonzero error code in the optimization response ends the run with a
\* failure carrying that code and the remote reason, and neither the
\* persistence call nor a fallback geometry lookup is made.
C2_OptimizeErrorSurfaced ==
    (optimize_result.shape = "dict" /\ optimize_result.error # None
        /\ optimize_result.error[1] # 0) =>
        /\ pc = "done"
        /\ result.error = optimize_result.error[1]
        /\ optimize_result.reason # None => result.text = optimize_result.reason[1]
        /\ ui.kind = "error"
        /\ calls.persist = 0
        /\ calls.osrm = 0

C2_Witness ==
    /\ pc = "done"
    /\ optimize_result.shape = "dict"
    /\ optimize_result.error = Some(4)
    /\ optimize_result.reason = Some("LIMIT")
    /\ optimize_result.unit = "dict"
    /\ result.text = "LIMIT"

ValidationErrors == { "Could not locate header row",
                      "Missing required columns",
                      "KeyError",
                      "No valid data found",
                      "Multiple truck numbers found",
                      "Could not find unit ID for truck" }

\* C3: every input-validation failure of run_wialon_uploader ends the
\* submission with an error before any remote call: a run that shows one of
\* these errors has made no call, a run that read two different identifiers
\* ends in an error, and a run that made a call has a non-empty table, one
\* identifier and a matching asset.
C3_ValidationBeforeRemote ==
    /\ (ui.kind = "error" /\ ui.text \in ValidationErrors) =>
           pc = "done" /\ calls = NoCalls
    /\ (pc # "excels" /\ Cardinality(truck_numbers) > 1) =>
           ui.kind = "error" /\ ui.text \in ValidationErrors
    /\ (calls # NoCalls) =>
           /\ ~(ui.kind = "error" /\ ui.text \in ValidationErrors)
           /\ df_grouped # << >>
           /\ truck_number_norm # None
           /\ unit_id # None
           /\ unit_id[1] # 0

\* no asset matches the identifier of the order files
C3_Witness ==
    /\ pc = "done"
    /\ ui.text = "Could not find unit ID for truck"
    /\ truck_number_norm = T2
    /\ unit_id = None
    /\ calls = NoCalls

\* C4: the persistence call is made only after a login response with a session
\* id and an optimization response with error code zero and a non-empty order
\* list for the vehicle; without a session id the run ends with Login failed
\* carrying the response and no optimize call; with an empty or missing order
\* list it ends with a failure and no persistence call.
C4_PersistOnlyAfterLoginAndOptimize ==
    /\ (pc = "persist" \/ calls.persist > 0) =>
           /\ login_result.shape = "dict"
           /\ login_result.eid # None
           /\ session_id = login_result.eid
           /\ calls.auth = 1
           /\ calls.optimize = 1
           /\ optimize_result.shape = "dict"
           /\ optimize_result.error \in { None, Some(0) }
           /\ optimize_result.unit = "dict"
           /\ optimize_result.orders # << >>
    /\ (login_result.shape = "other"
            \/ (login_result.shape = "dict" /\ login_result.eid = None)) =>
           /\ pc = "done"
           /\ result.error # 0
           /\ result.kind = "Login failed"
           /\ result.text = login_result.body
           /\ calls.optimize = 0
           /\ calls.persist = 0
    /\ (optimize_result.shape \in { "dict", "other" }
            /\ optimize_result.error \in { None, Some(0) }
            /\ (optimize_result.shape = "other" \/ optimize_result.unit = "missing"
                   \/ (optimize_result.unit = "dict" /\ optimize_result.orders = << >>))) =>
           /\ pc = "done"
           /\ result.error # 0
           /\ result.kind = "No optimized orders in response"
           /\ calls.persist = 0

C4_Witness ==
    /\ calls.persist = 1
    /\ session_id = Some("s1")
    /\ Len(optimize_result.orders) = 2

\* C5: a failed fallback lookup never aborts the assembly: every lookup, failed
\* or not, is followed by its stop, a stop whose lookup failed carries no
\* geometry, and a run with a failed lookup whose optimizer entries are all
\* well-formed handles all of them and makes the persistence call.
C5_FallbackNeverAborts ==
    /\ Len(osrm_log) = Len(route_orders)
    /\ \A k \in 1..Len(osrm_log) :
          (k <= Len(route_orders) /\ osrm_log[k] \in OsrmFailed) => route_orders[k].rp = None
    /\ (pc = "done"
           /\ (\E k \in 1..Len(osrm_log) : osrm_log[k] \in OsrmFailed)
           /\ \A k \in 1..Len(optimized_orders) : optimized_orders[k].idk # "list") =>
          /\ calls.persist = 1
          /\ order_idx = Len(optimized_orders)
          /\ Len(route_orders) = Len(AcceptedEntries) + 2

\* the lookups of a customer leg and of the final leg both failed, the latter
\* by a fault, and the plan was persisted
C5_Witness ==
    /\ pc = "done"
    /\ calls.persist = 1
    /\ Len(osrm_log) = 3
    /\ osrm_log[2] \in OsrmFailed
    /\ osrm_log[3] = "fault"
    /\ route_orders[3].rp = None

\* C6: a fault in the authenticate, optimize or persist step (or in the code
\* between them) ends the run with a failure result; each of the three calls
\* is made at most once, and after a fault no further call is made.
C6_FaultsBecomeFailuresNoRetry ==
    /\ calls.auth <= 1 /\ calls.optimize <= 1 /\ calls.persist <= 1
    /\ login_result.shape = "fault" =>
           /\ pc = "done" /\ result.error # 0 /\ result.kind # ""
           /\ calls = [NoCalls EXCEPT !.auth = 1]
    /\ optimize_result.shape = "fault" =>
           /\ pc = "done" /\ result.error # 0 /\ result.kind # ""
           /\ calls = [NoCalls EXCEPT !.auth = 1, !.optimize = 1]
    /\ route_result.shape = "fault" =>
           /\ pc = "done" /\ result.error # 0 /\ result.kind # ""
    /\ result.kind = "An unexpected error occurred" =>
           /\ pc = "done" /\ result.error # 0 /\ ui.kind = "error"
    /\ (pc = "done" /\ calls.auth > 0) => result.kind # ""

C6_Witness ==
    /\ pc = "done"
    /\ route_result.shape = "fault"
    /\ result.kind = "An unexpected error occurred"
    /\ calls.persist = 1

\* C7: each customer stop is planned at least 60 s after the stop before it
\* and not before tf; a time of the optimizer that is missing, no int or not
\* positive gives exactly the previous time + 600; the start depot is planned
\* at tf and the end depot 600 s after the stop before it; times increase.
C7_VisitTimes ==
    LET n == Len(route_orders)
        k_cust == Len(AcceptedEntries)
    IN  /\ n >= 1 => route_orders[1].vt = tf
        /\ n >= 1 => n \in { k_cust + 1, k_cust + 2 }
        /\ \A k \in 2..n : route_orders[k].vt > route_orders[k - 1].vt
        /\ \A k \in 2..n :
              k <= k_cust + 1 =>
                 /\ route_orders[k].vt >= route_orders[k - 1].vt + 60
                 /\ route_orders[k].vt >= tf
                 /\ (AcceptedEntries[k - 1].tmk # "int" \/ AcceptedEntries[k - 1].tm <= 0) =>
                        route_orders[k].vt = route_orders[k - 1].vt + 600
        /\ n = k_cust + 2 => route_orders[n].vt = route_orders[n - 1].vt + 600

\* the optimizer gave the second stop a time before that of the first
C7_Witness ==
    /\ pc = "persist"
    /\ Len(route_orders) = 4
    /\ AcceptedEntries[2].tmk = "int"
    /\ AcceptedEntries[2].tm > 0
    /\ AcceptedEntries[2].tm < route_orders[2].vt
    /\ route_orders[3].vt = route_orders[2].vt + 60

\* C8: the summary's mileage is the sum of the leg mileage of all stops, its
\* weight and cost are the sums over the stops flagged 0, depot stops carry
\* zero weight and cost, and two rows of tonnage 1.0 and 2.0 that the
\* optimizer both returns give a total weight of 3000.
C8_SummaryTotals ==
    pc = "persist" =>
        LET n == Len(route_orders)
            cust == { k \in 1..n : route_orders[k].f = 0 }
        IN  /\ summary.mileage = SeqSum([k \in 1..n |-> route_orders[k].m])
            /\ summary.weight =
                  SeqSum([k \in 1..n |-> IF k \in cust THEN route_orders[k].w ELSE 0])
            /\ summary.cost =
                  SeqSum([k \in 1..n |-> IF k \in cust THEN route_orders[k].c ELSE 0])
            /\ \A k \in (1..n) \ cust : route_orders[k].w = 0 /\ route_orders[k].c = 0
            /\ (/\ Len(df_grouped) = 2
                /\ { df_grouped[1].TONNAGE, df_grouped[2].TONNAGE } = { 10000, 20000 }
                /\ Len(AcceptedEntries) = 2
                /\ { AcceptedEntries[1].id, AcceptedEntries[2].id } = { 1, 2 })
               => summary.weight = 3000

\* the batch elements that carry a nonzero error code
ErroringItems(r) ==
    IF r.shape = "list"
    THEN SelectSeq(r.items, LAMBDA a : a.dict /\ a.error # None /\ a.error[1] # 0)
    ELSE IF r.error # None /\ r.error[1] # 0 THEN << r >> ELSE << >>

\* C9 as stated: a list- or dict-shaped persistence response fails the run
\* exactly when it holds an element with a nonzero error code; without one
\* (also a dict with no error field) the result is a success with the plan URL
\* of the session, with one the result carries the first such element's code
\* and reason.
C9_AsStated ==
    (pc = "done" /\ route_result.shape \in { "list", "dict" }) =>
        LET bad == ErroringItems(route_result) IN
        /\ bad = << >> => result.error = 0 /\ result.url = session_id
        /\ bad # << >> =>
              /\ result.error = bad[1].error[1]
              /\ bad[1].reason # None => result.text = bad[1].reason[1]

\* C9 amended: a list-shaped response without an erroring element, and a
\* dict-shaped response whose error field is present and zero, give a success
\* with the plan URL of the session; a list with an erroring element gives the
\* first such element's code and reason; any other dict (a nonzero code, or no
\* error field) gives a failure with code 1.
C9_Amended ==
    (pc = "done" /\ route_result.shape \in { "list", "dict" }) =>
        LET bad == ErroringItems(route_result) IN
        /\ (route_result.shape = "list" /\ bad = << >>) =>
              result.error = 0 /\ result.url = session_id /\ ui.kind = "success"
        /\ (route_result.shape = "list" /\ bad # << >>) =>
              /\ result.error = bad[1].error[1]
              /\ bad[1].reason # None => result.text = bad[1].reason[1]
              /\ ui.kind = "error"
        /\ (route_result.shape = "dict" /\ route_result.error = Some(0)) =>
              result.error = 0 /\ result.url = session_id /\ ui.kind = "success"
        /\ (route_result.shape = "dict" /\ route_result.error # Some(0)) =>
              /\ result.error = 1
              /\ result.kind = "Unexpected or error response"
              /\ ui.kind = "error"

\* a dict-shaped response without an error field ended the run as a failure
C9_Witness ==
    /\ pc = "done"
    /\ route_result.shape = "dict"
    /\ route_result.error = None
    /\ result.error = 1

ReadErrors == { "Could not locate header row", "Missing required columns", "KeyError" }

\* the step in which process_multiple_excels, having read every file, ends
EndsExcels == pc = "excels" /\ pc' # "excels" /\ ui'.text \notin ReadErrors

NamesAllTrucks ==
    /\ ui'.kind = "error"
    /\ ui'.text = "Multiple truck numbers found"
    /\ ui'.named = truck_numbers

\* C10 as stated: process_multiple_excels, having read files with more than one
\* distinct identifier, raises the failure naming all of them, however many
\* valid rows the files hold; with at most one identifier it does not.
C10_AsStated ==
    [][ /\ (EndsExcels /\ Cardinality(truck_numbers) > 1) => NamesAllTrucks
        /\ (EndsExcels /\ Cardinality(truck_numbers) <= 1) =>
               ui'.text # "Multiple truck numbers found" ]_vars

\* C10 amended: with more than one distinct identifier and at least one file
\* that holds a valid row it raises the failure naming all identifiers; when no
\* file holds a valid row it raises "No valid data found" instead; with at most
\* one identifier it does not raise the failure.
C10_Amended ==
    [][ /\ (EndsExcels /\ Cardinality(truck_numbers) > 1 /\ all_gdfs # << >>) =>
               NamesAllTrucks
        /\ (EndsExcels /\ all_gdfs = << >>) =>
               ui'.kind = "error" /\ ui'.text = "No valid data found"
        /\ (EndsExcels /\ Cardinality(truck_numbers) <= 1) =>
               ui'.text # "Multiple truck numbers found" ]_vars

\* two files with different identifiers, only one of them with valid rows
C10_Witness ==
    /\ pc = "done"
    /\ file_idx = 2
    /\ Len(all_gdfs) = 1
    /\ ui.text = "Multiple truck numbers found"
    /\ ui.named = { T1, T2 }

(***************************************************************************)
(* read_asset_id_from_excel studied on its own: a unit sheet of up to      *)
(* MaxAssets rows and an identifier go in, the returned pair comes out.    *)
(***************************************************************************)
MaxAssets == 2         \* rows of the unit sheet

KBX123Z == << "K", "B", "X", "1", "2", "3", "Z" >>
KAA999Y == << "K", "A", "A", "9", "9", "9", "Y" >>
KBX12 == << "K", "B", "X", "1", "2" >>

AssetNames == {
    << "K", "B", "X", " ", "1", "2", "3", "Z", "-", "T", "R", "U", "C", "K" >>,
    KAA999Y,
    << "k", "b", "x", "-", "1", "2", "3", "z" >>,
    KBX123Z,
    KBX12 }

\* the sheets: row k of a sheet carries itemid 11 * k
UnitSheets ==
    { [cols |-> TRUE,
       rows |-> [k \in DOMAIN names |-> [name |-> names[k], itemid |-> 11 * k]]] :
        names \in UNION { [1..m -> AssetNames] : m \in 0..MaxAssets } }

AssetInputs ==
    { [assets |-> a, truck |-> t] :
        a \in UnitSheets \cup { [cols |-> FALSE, rows |-> << >>] },
        t \in { None, KBX123Z, KAA999Y, KBX12 } }

InitAsset ==
    /\ pc = "fn"
    /\ Blank
    /\ fn_in \in AssetInputs
    /\ fn_out = None

CallAsset ==
    /\ pc = "fn"
    /\ fn_out' = read_asset_id_from_excel(fn_in.assets, fn_in.truck)
    /\ pc' = "fn_done"
    /\ UNCHANGED << fn_in, submissionVars >>

SpecAsset == InitAsset /\ [][CallAsset]_vars

\* rows of the sheet whose normalized name equals / contains the identifier
ExactRows(a, t) == { k \in DOMAIN a.rows : normalize_plate(a.rows[k].name) = t }
ContainingRows(a, t) == { k \in DOMAIN a.rows : Contains(normalize_plate(a.rows[k].name), t) }
FirstOf(S) == CHOOSE k \in S : \A j \in S : k <= j
ReturnsRow(a, k) ==
    /\ fn_out.err = ""
    /\ fn_out.unit = Some(a.rows[k].itemid)
    /\ fn_out.name = Some(a.rows[k].name)

\* C11: on a sheet that has the name and itemid columns, the lookup returns
\* the unit id and display name of the first row whose normalized name
\* equals the identifier when there is one, also when an earlier row only
\* contains it; only otherwise those of the first row whose normalized name
\* contains it; and (absent, absent) when the identifier is missing or
\* empty or no row matches.  With the names "KBX 123Z-TRUCK", "KAA999Y" and
\* the identifier KBX123Z it returns the first row's unit id.
C11_ExactBeforeContains ==
    (pc = "fn_done" /\ fn_in.assets.cols) =>
        LET a == fn_in.assets
            t == fn_in.truck
        IN  /\ (t # None /\ ExactRows(a, t) # {}) => ReturnsRow(a, FirstOf(ExactRows(a, t)))
            /\ (t # None /\ ExactRows(a, t) = {} /\ ContainingRows(a, t) # {})
                    => ReturnsRow(a, FirstOf(ContainingRows(a, t)))
            /\ (t = None \/ ContainingRows(a, t) = {})
                    => fn_out = [err |-> "", unit |-> None, name |-> None]
            /\ ( /\ t = KBX123Z
                 /\ Len(a.rows) = 2
                 /\ a.rows[1].name = << "K", "B", "X", " ", "1", "2", "3", "Z", "-", "T", "R", "U", "C", "K" >>
                 /\ a.rows[2].name = KAA999Y )
                    => fn_out.unit = Some(a.rows[1].itemid)

\* an exact row is returned although an earlier row contains the identifier
C11_Witness ==
    /\ pc = "fn_done"
    /\ fn_in.truck = KBX123Z
    /\ Len(fn_in.assets.rows) = 2
    /\ 1 \in ContainingRows(fn_in.assets, KBX123Z) \ ExactRows(fn_in.assets, KBX123Z)
    /\ 2 \in ExactRows(fn_in.assets, KBX123Z)
    /\ fn_out.unit = Some(22)
    /\ fn_out.name = Some(fn_in.assets.rows[2].name)

(***************************************************************************)
(* extract_coordinates studied on its own, on text built from up to        *)
(* MaxChunks pieces: the two markers, digits, a sign, a blank, a letter.   *)
(***************************************************************************)
MaxChunks == 5         \* pieces a coordinate cell is built from

LAT == << "L", "A", "T", ":" >>
LONG == << "L", "O", "N", "G", ":" >>

StartsWith(s, p) == Len(p) <= Len(s) /\ SubSeq(s, 1, Len(p)) = p
DropFirst(s, n) == SubSeq(s, n + 1, Len(s))

\* s.split(sep): the text before the first sep, and the text after it
RECURSIVE Before(_, _)
Before(s, sep) ==
    IF s = << >> \/ StartsWith(s, sep) THEN << >>
    ELSE << Head(s) >> \o Before(Tail(s), sep)
After(s, sep) == DropFirst(s, Len(Before(s, sep)) + Len(sep))

\* s.replace(sub, ""): one pass, left to right
RECURSIVE Remove(_, _)
Remove(s, sub) ==
    IF s = << >> THEN << >>
    ELSE IF StartsWith(s, sub) THEN Remove(DropFirst(s, Len(sub)), sub)
    ELSE << Head(s) >> \o Remove(Tail(s), sub)

DigitVal(c) == (CHOOSE i \in DOMAIN DigitChars : DigitChars[i] = c) - 1

RECURSIVE DigitsVal(_)
DigitsVal(s) ==
    IF s = << >> THEN 0
    ELSE 10 * DigitsVal(SubSeq(s, 1, Len(s) - 1)) + DigitVal(s[Len(s)])

\* float(s) on text of digits with an optional sign: << v >>, or << >> for
\* the ValueError on anything else
float(s) ==
    LET neg == s # << >> /\ Head(s) = "-"
        body == IF neg THEN Tail(s) ELSE s
    IN  IF body # << >> /\ \A i \in DOMAIN body : body[i] \in Digits
        THEN Some(IF neg THEN 0 - DigitsVal(body) ELSE DigitsVal(body))
        ELSE None

\* extract_coordinates on a cell: text, or something that is no str
extract_coordinates(cell) ==
    IF cell.isStr /\ Contains(cell.text, LAT) /\ Contains(cell.text, LONG)
    THEN LET part0 == Before(cell.text, LONG)
             part1 == Before(After(cell.text, LONG), LONG)
             latitude == float(Remove(Remove(part0, LAT), << " " >>))
             longitude == float(Remove(part1, << " " >>))
         IN  IF latitude = None \/ longitude = None
             THEN [lat |-> None, long |-> None]
             ELSE [lat |-> latitude, long |-> longitude]
    ELSE [lat |-> None, long |-> None]

\* the LAT and LONG columns are filled in, rows lacking either are dropped
Locate(table) ==
    SelectSeq([k \in DOMAIN table |->
                  table[k] @@ [LAT |-> extract_coordinates(table[k].coords).lat,
                               LONG |-> extract_coordinates(table[k].coords).long]],
              LAMBDA r : r.LAT # None /\ r.LONG # None)

Chunks == { LAT, LONG, << "1" >>, << "2" >>, << "-" >>, << " " >>, << "x" >> }

RECURSIVE Texts(_)
Texts(n) ==
    IF n = 0 THEN { << >> }
    ELSE LET shorter == Texts(n - 1)
         IN  shorter \cup { t \o c : t \in shorter, c \in Chunks }

Cells == { [isStr |-> TRUE, text |-> t] : t \in Texts(MaxChunks) }
            \cup { [isStr |-> FALSE, text |-> << >>] }

InitCoords ==
    /\ pc = "fn"
    /\ Blank
    /\ fn_in \in Cells
    /\ fn_out = None

CallCoords ==
    /\ pc = "fn"
    /\ fn_out' = [coords |-> extract_coordinates(fn_in),
                  table |-> Locate(<< [coords |-> fn_in] >>)]
    /\ pc' = "fn_done"
    /\ UNCHANGED << fn_in, submissionVars >>

SpecCoords == InitCoords /\ [][CallCoords]_vars

\* the form LAT:<num>LONG:<num>, blanks allowed anywhere
ExactForm(text) ==
    LET t == Remove(text, << " " >>)
        rest == DropFirst(t, Len(LAT))
    IN  /\ StartsWith(t, LAT)
        /\ \E k \in 1..Len(rest) :
              /\ float(SubSeq(rest, 1, k)) # None
              /\ StartsWith(DropFirst(rest, k), LONG)
              /\ float(DropFirst(rest, k + Len(LONG))) # None

\* C12: for every cell whose text is not of the form LAT:<num>LONG:<num>
\* (blanks tolerated), also with text before LAT:, a repeated marker or text
\* after the longitude, extract_coordinates returns (absent, absent); and
\* every row of the table read_excel_to_df returns has a latitude and a
\* longitude.
C12_OnlyExactFormParses ==
    pc = "fn_done" =>
        /\ ~(fn_in.isStr /\ ExactForm(fn_in.text))
               => fn_out.coords = [lat |-> None, long |-> None]
        /\ \A k \in DOMAIN fn_out.table :
               fn_out.table[k].LAT # None /\ fn_out.table[k].LONG # None

(***************************************************************************)
(* read_excel_to_df studied on its own, cell by cell: a sheet with or      *)
(* without a header row and the required columns, any of the optional      *)
(* columns, and up to MaxRows rows under the header, of which at least one *)
(* passes the two row filters.  A cell is << v >>, or << >> when it is     *)
(* empty or, in a number column, no number.                                *)
(***************************************************************************)
MaxRows == 2           \* rows under the header of an order sheet

OptionalCols == { "TONNAGE", "AMOUNT", "INVOICE NO", "REP" }

GoodCell == [isStr |-> TRUE, text |-> LAT \o << "1" >> \o LONG \o << "2" >>]
BadCell == [isStr |-> TRUE, text |-> << "x" >>]

RawRows == {
    [cid |-> Some(1), name |-> "ACME", loc |-> "L1", coords |-> GoodCell,
     TONNAGE |-> Some(10000), AMOUNT |-> Some(5000), INVOICE |-> Some("A1"), REP |-> Some("R1")],
    [cid |-> Some(1), name |-> "ACME", loc |-> "L1", coords |-> GoodCell,
     TONNAGE |-> Some(5000), AMOUNT |-> None, INVOICE |-> Some("A2"), REP |-> Some("R1")],
    [cid |-> Some(2), name |-> "BETA", loc |-> "L2", coords |-> BadCell,
     TONNAGE |-> None, AMOUNT |-> Some(700), INVOICE |-> None, REP |-> Some("R2")],
    [cid |-> Some(3), name |-> "TOTAL", loc |-> "", coords |-> BadCell,
     TONNAGE |-> Some(15000), AMOUNT |-> Some(5700), INVOICE |-> None, REP |-> None],
    [cid |-> None, name |-> "", loc |-> "", coords |-> BadCell,
     TONNAGE |-> None, AMOUNT |-> None, INVOICE |-> None, REP |-> None] }

\* CUSTOMER NAME contains TOTAL
TotalNames == { "TOTAL" }

\* the two row filters
IsDelivery(r) == r.cid # None /\ r.name \notin TotalNames

OrderSheets ==
    { f \in [header : BOOLEAN, required : BOOLEAN, cols : SUBSET OptionalCols,
             rows : UNION { [1..n -> RawRows] : n \in 1..MaxRows }] :
        \E k \in DOMAIN f.rows : IsDelivery(f.rows[k]) }

\* ", ".join(str(i) for i in x if pd.notna(i)), as the list of its pieces
RECURSIVE JoinInvoices(_)
JoinInvoices(rows) ==
    IF rows = << >> THEN << >>
    ELSE IF Head(rows).INVOICE = None THEN JoinInvoices(Tail(rows))
    ELSE LET rest == JoinInvoices(Tail(rows))
         IN  IF rest = << >> THEN << Head(rows).INVOICE[1] >>
             ELSE << Head(rows).INVOICE[1], ", " >> \o rest

\* the groups in key order; the groups studied differ in CUSTOMER ID
RECURSIVE Ordered(_)
Ordered(S) ==
    IF S = {} THEN << >>
    ELSE LET m == CHOOSE r \in S : \A q \in S : r.cid <= q.cid
         IN  << m >> \o Ordered(S \ {m})

\* read_excel_to_df from the header row on: raises (err) or returns the table
read_excel_cells(f) ==
    IF ~f.header
    THEN [err |-> "Could not locate header row", df |-> << >>]
    ELSE IF ~f.required
    THEN [err |-> "Missing required columns", df |-> << >>]
    ELSE LET kept == SelectSeq(f.rows, IsDelivery)
             Num(r, col) == IF col \in f.cols /\ r[col] # None THEN r[col][1] ELSE 0
             keyed == SelectSeq(kept, LAMBDA r : r.REP # None /\ r.coords.isStr)
             Key(r) == << r.cid[1], r.name, r.loc, r.coords, r.REP[1] >>
             Members(key) == SelectSeq(keyed, LAMBDA r : Key(r) = key)
             Agg(key) ==
                 LET rows == Members(key)
                 IN  [cid |-> key[1], name |-> key[2], loc |-> key[3],
                      coords |-> key[4], REP |-> key[5],
                      TONNAGE |-> SeqSum([k \in DOMAIN rows |-> Num(rows[k], "TONNAGE")]),
                      AMOUNT |-> SeqSum([k \in DOMAIN rows |-> Num(rows[k], "AMOUNT")]),
                      INVOICE |-> IF "INVOICE NO" \in f.cols
                                  THEN JoinInvoices(rows) ELSE << >>]
         IN  IF "REP" \notin f.cols
             THEN [err |-> "KeyError: REP", df |-> << >>]
             ELSE IF "INVOICE NO" \notin f.cols
             THEN [err |-> "KeyError: INVOICE NO", df |-> << >>]
             ELSE [err |-> "",
                   df |-> Locate(Ordered({ Agg(Key(keyed[k])) : k \in DOMAIN keyed }))]

InitSheet ==
    /\ pc = "fn"
    /\ Blank
    /\ fn_in \in OrderSheets
    /\ fn_out = None

CallSheet ==
    /\ pc = "fn"
    /\ fn_out' = read_excel_cells(fn_in)
    /\ pc' = "fn_done"
    /\ UNCHANGED << fn_in, submissionVars >>

SpecSheet == InitSheet /\ [][CallSheet]_vars

\* a row that passes the filters and whose coordinates parse
ValidRow(r) ==
    IsDelivery(r) /\ r.REP # None /\ extract_coordinates(r.coords).lat # None

\* C13: a sheet with a header row, the four required columns and a valid
\* delivery row is aggregated without error whichever of TONNAGE, AMOUNT,
\* INVOICE NO and REP are absent: the table is returned with that row's
\* group in it, an absent TONNAGE or AMOUNT column gives zero and an absent
\* invoice column gives the empty invoice string on every row.
C13_OptionalColumnsMayBeAbsent ==
    ( /\ pc = "fn_done"
      /\ fn_in.header
      /\ fn_in.required
      /\ \E k \in DOMAIN fn_in.rows : ValidRow(fn_in.rows[k]) ) =>
        /\ fn_out.err = ""
        /\ fn_out.df # << >>
        /\ \A k \in DOMAIN fn_out.df :
              /\ "TONNAGE" \notin fn_in.cols => fn_out.df[k].TONNAGE = 0
              /\ "AMOUNT" \notin fn_in.cols => fn_out.df[k].AMOUNT = 0
              /\ "INVOICE NO" \notin fn_in.cols => fn_out.df[k].INVOICE = << >>

(***************************************************************************)
(* The plan against the request                                            *)
(***************************************************************************)
\* the row of the sorted table that was sent as order `id`
RequestRow(id) == df_grouped[id]

DistinctNames(df) ==
    \A i, j \in DOMAIN df : df[i].name = df[j].name => i = j

\* C14: every customer stop of the plan carries the weight, the cost and the
\* coordinates of the aggregated row that was sent under the order id the
\* optimizer returned, also when rows share a customer name, and the plan's
\* total weight is the sum of the request weights of the returned orders.
C14_StopCarriesItsOrder ==
    (pc \in { "stops", "persist" } \/ calls.persist > 0) =>
        /\ \A k \in 2..Len(route_orders) :
              route_orders[k].f = 0 =>
                 /\ route_orders[k].w = weight_kg(RequestRow(route_orders[k].id))
                 /\ route_orders[k].c = cost_int(RequestRow(route_orders[k].id))
                 /\ route_orders[k].pos = RequestRow(route_orders[k].id).pos
        /\ pc # "stops" =>
              summary.weight =
                  SeqSum([k \in DOMAIN AcceptedEntries |->
                             weight_kg(RequestRow(AcceptedEntries[k].id))])

\* an optimizer entry that is a dict whose id is one of the order ids sent
Submitted(e) == e.dict /\ e.idk = "int" /\ e.id \in 1..Len(df_grouped)

SubmittedEntries == SelectSeq(optimized_orders, Submitted)

\* C15: in every assembled plan the sequence index of each stop is its
\* zero-based position (start depot 0, customer stops 1..k, end depot k + 1);
\* the customer stops stand in the order of their entries in the optimizer's
\* response, whatever the distance sort made of the table; entries that are
\* no dict or whose id was not sent are passed over without using an index,
\* so that the plan has 2 + k stops, k the number of entries with a sent id.
C15_IndexIsPosition ==
    (pc = "persist" \/ calls.persist > 0) =>
        /\ Len(route_orders) = 2 + Len(SubmittedEntries)
        /\ \A k \in DOMAIN route_orders : route_orders[k].i = k - 1
        /\ \A k \in DOMAIN SubmittedEntries :
              route_orders[k + 1].id = SubmittedEntries[k].id
        /\ sequence_index = Len(SubmittedEntries) + 1

\* a plan of four stops whose customers stand in the optimizer's order, the
\* farther row (order id 2) before the nearer (order id 1)
C15_Witness ==
    /\ pc = "persist"
    /\ Len(route_orders) = 4
    /\ route_orders[2].id = 2
    /\ route_orders[3].id = 1
    /\ calc_dist(MorlPos, df_grouped[1].pos) < calc_dist(MorlPos, df_grouped[2].pos)
    /\ route_orders[4].i = 3

====
